---- MODULE Spec2Model ----
(***************************************************************************)
(* A model of the SOC onboarding backend (src/app).                        *)
(*                                                                         *)
(* Every HTTP request is one instance of an `async def` handler of         *)
(* src/app/api/v1/onboarding.py.  A handler runs without interruption from *)
(* one `await` to the next, so an action of this model is the code of one  *)
(* handler between two consecutive awaits, together with the awaited call  *)
(* (one HTTP exchange with the identity provider or with ARM, or a method  *)
(* of CosmosService).  A method of CosmosService that makes two round      *)
(* trips to the store, a read and a replace_item of the whole document     *)
(* read, is two actions.  Between two actions of one request any other     *)
(* request may take steps: the customer store is a database shared by      *)
(* every handler instance, while _state_store is a dict of the process,    *)
(* read and written only between awaits.                                   *)
(*                                                                         *)
(* secrets.token_urlsafe and uuid4 are modelled as sources of fresh values: *)
(* a request draws at most one state token, one key body and one uuid, and *)
(* the value request number r draws is named after r.  sha256 is modelled  *)
(* as an injective function whose digests are never key strings.           *)
(***************************************************************************)
EXTENDS Integers, Sequences, FiniteSets, TLC

VARIABLES
    req,          \* the requests received so far: request number -> handler instance
    nreq,         \* how many requests have been received
    state_store,  \* onboarding._state_store: state token -> {"redirect_uri": ...}
    customers,    \* the documents of the Cosmos container "customers"
    audit_logs,   \* the documents of the Cosmos container "audit_logs": entry -> count
    pg_customers, \* the rows of the PostgreSQL table "customers"
    faults,       \* store operations that have failed so far
    arm           \* the resources ARM holds: [kind, name]

vars == <<req, nreq, state_store, customers, audit_logs, pg_customers, faults, arm>>

(***************************************************************************)
(* Bounds of the model.                                                    *)
(***************************************************************************)
MaxReqs == 4           \* requests received in one behaviour, of every kind
MaxOAuthReqs == 4      \* requests to /auth-url and /callback
MaxCustomerReqs == 3   \* requests to /complete and /regenerate-api-key, and
                       \* calls of PostgresCustomerService
MaxArmReqs == 2        \* requests to /create-workspace
MaxRuleReqs == 2       \* requests to /create-automation-rule
MaxKeyReqs == 3        \* requests to /customer-status and calls of the
                       \* customer repository's methods
MaxListReqs == 1       \* requests to /workspaces and /subscriptions
MaxSubs == 2           \* subscriptions in a response of ARM
MaxFaults == 1         \* store operations that fail
MaxMixedReqs == 3      \* requests received in a behaviour of SpecKeys or SpecStages
MaxArmRuleReqs == 1    \* requests to /create-workspace, and to
                       \* /create-automation-rule, in a behaviour of SpecStages
                       \* or SpecOutbound

Reqs == 1..MaxReqs
None == "None"
Tenants == {"t1", "t2"}
RedirectUris == {"https://portal/cb"}

Idle == [kind |-> "idle", pc |-> "idle"]

\* The kinds of request, by the bound that limits how many of them arrive.
OAuthKinds == {"auth_url", "callback"}
CustomerKinds == {"complete", "regenerate", "pg_create_customer",
                  "pg_regenerate_api_key"}
ArmKinds == {"create_workspace"}
RuleKinds == {"create_automation_rule"}
KeyKinds == {"customer_status", "update_customer", "get_customer_by_api_key",
             "repo_create_customer", "repo_get_customer_by_tenant",
             "repo_regenerate_api_key"}
ListKinds == {"list_workspaces", "list_subscriptions"}

\* How many requests of these kinds have arrived so far.
Arrived(kinds) == Cardinality({q \in Reqs : req[q].kind \in kinds})

\* The next request to arrive: requests are numbered in arrival order, whatever
\* their kind; one of these kinds arrives while fewer than bound of them have.
Arrives(r, kinds, bound) ==
    /\ r = nreq + 1
    /\ r \in Reqs
    /\ Arrived(kinds) < bound

\* A step that leaves no more than bound requests received.
Within(bound) == nreq' <= bound

Min(S) == CHOOSE x \in S : \A y \in S : x <= y

(***************************************************************************)
(* State Token Store and the OAuth endpoints.                              *)
(***************************************************************************)

\* `state not in _state_store` (negated): the membership test of the callback.
StateTokenUnchecked(store, state) == TRUE
StateTokenValid(store, state) == state \in DOMAIN store

\* `_state_store.pop(state)`: the store without the entry.
StorePopKeeps(store, state) == store
StorePop(store, state) == [t \in DOMAIN store \ {state} |-> store[t]]

\* `_state_store[state] = {"redirect_uri": redirect_uri}`
StorePut(store, state, redirect_uri) ==
    [t \in DOMAIN store \cup {state} |->
        IF t = state THEN [redirect_uri |-> redirect_uri] ELSE store[t]]

\* GET /auth-url: no await, the whole handler is one step.
get_auth_url(r, redirect_uri) ==
    /\ Arrives(r, OAuthKinds, MaxOAuthReqs)
    /\ LET state == r IN
        /\ state_store' = StorePut(state_store, state, redirect_uri)
        /\ req' = [req EXCEPT ![r] =
                [kind |-> "auth_url", pc |-> "done", status |-> 200,
                 redirect_uri |-> redirect_uri, state |-> state]]
    /\ nreq' = r
    /\ UNCHANGED <<customers, audit_logs, pg_customers, faults, arm>>

\* The tokens a caller can present: every token issued so far, and 0, a value
\* that was never issued.
PresentableStates == {0} \cup {q \in Reqs : req[q].kind = "auth_url"}
CallbackErrors == {None, "", "access_denied"}

\* `if error:`: the parameter is given and is not the empty string.
ProviderErrorNever(error) == FALSE
ProviderError(error) == error \notin {None, ""}

\* GET /callback, from its entry to the await of the token exchange.
oauth_callback(r, state, error) ==
    /\ Arrives(r, OAuthKinds, MaxOAuthReqs)
    /\ nreq' = r
    /\ LET base == [kind |-> "callback", state |-> state, error |-> error,
                    valid |-> FALSE, redirect_uri |-> None, exchanges |-> 0,
                    tenant_id |-> None] IN
       IF ProviderError(error)
       THEN /\ req' = [req EXCEPT ![r] = base @@
                        [pc |-> "done", status |-> 400, detail |-> "provider error"]]
            /\ UNCHANGED state_store
       ELSE IF ~StateTokenValid(state_store, state)
       THEN /\ req' = [req EXCEPT ![r] = base @@
                        [pc |-> "done", status |-> 400, detail |-> "Invalid state token"]]
            /\ UNCHANGED state_store
       ELSE /\ state_store' = StorePop(state_store, state)
            /\ req' = [req EXCEPT ![r] =
                        [base EXCEPT !.valid = TRUE,
                                     !.redirect_uri =
                                        IF state \in DOMAIN state_store
                                        THEN state_store[state].redirect_uri
                                        ELSE None] @@
                        [pc |-> "exchange", status |-> 0, detail |-> None]]
    /\ UNCHANGED <<customers, audit_logs, pg_customers, faults, arm>>

\* The responses of the identity provider's token endpoint: a status, and the
\* "tid" claim of the id_token (None when the response holds no id_token).
IdpStatuses == {200, 400}
IdpTids == {None, "t1"}

\* GET /callback, from the response of the token exchange to the return.
oauth_callback_exchange(r, status, tid) ==
    /\ r \in Reqs
    /\ req[r].kind = "callback"
    /\ req[r].pc = "exchange"
    /\ req' = [req EXCEPT ![r] =
            IF status # 200
            THEN [@ EXCEPT !.pc = "done", !.status = 400, !.exchanges = @ + 1,
                           !.detail = "Token exchange failed"]
            ELSE [@ EXCEPT !.pc = "done", !.status = 200, !.exchanges = @ + 1,
                           !.tenant_id = tid]]
    /\ UNCHANGED <<nreq, state_store, customers, audit_logs, pg_customers, faults, arm>>

NextOAuth ==
    \/ \E r \in Reqs, u \in RedirectUris : get_auth_url(r, u)
    \/ \E r \in Reqs, s \in PresentableStates, e \in CallbackErrors :
            oauth_callback(r, s, e)
    \/ \E r \in Reqs, s \in IdpStatuses, t \in IdpTids :
            oauth_callback_exchange(r, s, t)

(***************************************************************************)
(* Customer Repository: CosmosService (src/app/services/cosmos_service.py) *)
(***************************************************************************)

\* A string is modelled as the sequence of its parts: "" is << >>, and a
\* generated key is <<"soc_", head, tail>>, where "soc_" and head are its first
\* 8 characters and tail the other 39.
EmptyKey == << >>

\* secrets.token_urlsafe(32) as request n draws it: 43 characters, here the
\* first 4 and the rest.
token_urlsafe(n) == <<ToString(n), "~">>

\* hashlib.sha256(raw_key.encode()).hexdigest()
sha256(s) == <<"sha256">> \o s

\* CosmosService.generate_api_key: the n-th key and its hash.
generate_api_key(n) ==
    LET raw_key == <<"soc_">> \o token_urlsafe(n) IN
    [raw_key |-> raw_key, key_hash |-> sha256(raw_key)]

\* The document create_customer builds (the fields the onboarding flow reads).
customer_document(id, tenant_id, api_key_hash) ==
    [id |-> id, tenant_id |-> tenant_id, api_key_hash |-> api_key_hash,
     status |-> "active"]

\* `self.customers.create_item(customer)`: the container with the new document.
create_item(container, doc) == container \cup {doc}

\* The query of get_customer_by_tenant, "WHERE c.tenant_id = @tenant_id".
query_by_tenant_active(container, tenant_id) ==
    {d \in container : d.tenant_id = tenant_id /\ d.status = "active"}
query_by_tenant(container, tenant_id) ==
    {d \in container : d.tenant_id = tenant_id}

\* The query of get_customer_by_api_key,
\* "WHERE c.api_key_hash = @hash AND c.status = 'active'".
query_by_hash_any_status(container, api_key_hash) ==
    {d \in container : d.api_key_hash = api_key_hash}
query_by_hash(container, api_key_hash) ==
    {d \in container : d.api_key_hash = api_key_hash /\ d.status = "active"}

\* The query "WHERE c.id = @id" of update_customer_api_key.
query_by_id(container, id) == {d \in container : d.id = id}

\* What `items[0] if items else None` can be: a query returns its items in no
\* promised order, so any of them; None is the customer with id 0.
NoCustomer == [id |-> 0, tenant_id |-> None, api_key_hash |-> EmptyKey,
               status |-> None]
first_item(items) == IF items = {} THEN {NoCustomer} ELSE items

\* CosmosService.get_customer_by_tenant: the values it can return.  A query
\* that raises is caught and answered None.
get_customer_by_tenant_unfailing(container, tenant_id, raises) ==
    first_item(query_by_tenant(container, tenant_id))
get_customer_by_tenant(container, tenant_id, raises) ==
    IF raises THEN {NoCustomer}
    ELSE first_item(query_by_tenant(container, tenant_id))

\* `if not api_key or not api_key.startswith("soc_")`
ApiKeyRejected(api_key) == api_key = EmptyKey \/ api_key[1] # "soc_"

\* CosmosService.get_customer_by_api_key: the values it can return.
get_customer_by_api_key(container, api_key) ==
    IF ApiKeyRejected(api_key) THEN {NoCustomer}
    ELSE first_item(query_by_hash(container, sha256(api_key)))

\* `self.customers.replace_item(customer_id, customer)`: the document with
\* this id is replaced, whole, by the document given.
replace_item(container, customer_id, customer) ==
    {d \in container : d.id # customer_id} \cup {customer}

\* CosmosService.update_customer_api_key, lines 139-143: the document its query
\* read is given the new hash and written back with replace_item.
replace_api_key_hash_keeping_old(container, customer, new_api_key_hash) ==
    container \cup {[customer EXCEPT !.api_key_hash = new_api_key_hash]}
replace_api_key_hash_everywhere(container, customer, new_api_key_hash) ==
    {[d EXCEPT !.api_key_hash = new_api_key_hash] : d \in container}
replace_api_key_hash(container, customer, new_api_key_hash) ==
    replace_item(container, customer.id,
                 [customer EXCEPT !.api_key_hash = new_api_key_hash])

\* CosmosService.log_audit_event: the entry it builds (without its own uuid
\* and timestamp), and the audit container after create_item.  The container
\* is a bag: how many documents hold each entry.
audit_entry(customer_id, event_type, tenant_id) ==
    [customer_id |-> customer_id, event_type |-> event_type,
     tenant_id |-> tenant_id]
log_audit_event_once(container, entry) ==
    IF entry \in DOMAIN container THEN container ELSE container @@ (entry :> 1)
log_audit_event(container, entry) ==
    IF entry \in DOMAIN container
    THEN [container EXCEPT ![entry] = @ + 1]
    ELSE container @@ (entry :> 1)

\* A store operation may raise (the database is unreachable, throttles, ...):
\* here only while the model's fault budget lasts.
Fault(raises) ==
    /\ raises => faults < MaxFaults
    /\ faults' = IF raises THEN faults + 1 ELSE faults

\* History kept for the properties: whether a request arriving now overlaps
\* no other: every earlier one has
\* returned.
Alone == \A q \in Reqs : req[q].pc \in {"idle", "done"}

\* Whether a request arriving now comes in sequence after a /complete for the
\* same tenant: one that has returned, and had created its customer record.
InSequence(tenant_id) ==
    \E q \in Reqs : /\ req[q].kind = "complete"
                     /\ req[q].pc = "done"
                     /\ req[q].tenant_id = tenant_id
                     /\ req[q].customer_id # 0

(***************************************************************************)
(* POST /complete                                                          *)
(***************************************************************************)

\* Lines 293-296: entry, and the awaited existence lookup.
complete_lookup(r, tenant_id, raises) ==
    /\ Arrives(r, CustomerKinds, MaxCustomerReqs)
    /\ nreq' = r
    /\ Fault(raises)
    /\ \E existing \in get_customer_by_tenant(customers, tenant_id, raises) :
        req' = [req EXCEPT ![r] =
            [kind |-> "complete", pc |-> "checked", tenant_id |-> tenant_id,
             existing |-> existing.id, lookup_raised |-> raises,
             in_sequence |-> InSequence(tenant_id), alone |-> Alone,
             customer_id |-> 0, api_key |-> EmptyKey,
             status |-> 0, response_key |-> EmptyKey]]
    /\ UNCHANGED <<state_store, customers, audit_logs, pg_customers, arm>>

\* `if existing: raise HTTPException(409)`
CompleteConflictNever(existing) == FALSE
CompleteConflict(existing) == existing # 0

\* Lines 297-312: the 409, or the awaited create_customer.
complete_create(r, raises) ==
    /\ r \in Reqs
    /\ req[r].kind = "complete"
    /\ req[r].pc = "checked"
    /\ IF CompleteConflict(req[r].existing)
       THEN /\ ~raises
            /\ req' = [req EXCEPT ![r].pc = "done", ![r].status = 409]
            /\ UNCHANGED <<customers, faults>>
       ELSE LET k == generate_api_key(r)
                doc == customer_document(r, req[r].tenant_id, k.key_hash)
            IN  /\ Fault(raises)
                /\ IF raises
                   THEN /\ req' = [req EXCEPT ![r].pc = "done", ![r].status = 500]
                        /\ UNCHANGED customers
                   ELSE /\ customers' = create_item(customers, doc)
                        /\ req' = [req EXCEPT ![r].pc = "created",
                                              ![r].customer_id = doc.id,
                                              ![r].api_key = k.raw_key]
    /\ UNCHANGED <<nreq, state_store, audit_logs, pg_customers, arm>>

\* Lines 314-329: the awaited log_audit_event, and the response.
complete_audit(r, raises) ==
    /\ r \in Reqs
    /\ req[r].kind = "complete"
    /\ req[r].pc = "created"
    /\ Fault(raises)
    /\ IF raises
       THEN /\ req' = [req EXCEPT ![r].pc = "done", ![r].status = 500]
            /\ UNCHANGED audit_logs
       ELSE /\ audit_logs' = log_audit_event(audit_logs,
                    audit_entry(req[r].customer_id, "customer_onboarded",
                                req[r].tenant_id))
            /\ req' = [req EXCEPT ![r].pc = "done", ![r].status = 200,
                                  ![r].response_key = req[r].api_key]
    /\ UNCHANGED <<nreq, state_store, customers, pg_customers, arm>>

(***************************************************************************)
(* POST /regenerate-api-key                                                *)
(***************************************************************************)

\* Lines 259-262: entry, and the awaited lookup.
regenerate_lookup(r, tenant_id, raises) ==
    /\ Arrives(r, CustomerKinds, MaxCustomerReqs)
    /\ nreq' = r
    /\ Fault(raises)
    /\ \E existing \in get_customer_by_tenant(customers, tenant_id, raises) :
        req' = [req EXCEPT ![r] =
            [kind |-> "regenerate", pc |-> "checked", tenant_id |-> tenant_id,
             existing |-> existing.id, lookup_raised |-> raises,
             in_sequence |-> InSequence(tenant_id), alone |-> Alone,
             read |-> NoCustomer, customer_id |-> 0, api_key |-> EmptyKey,
             status |-> 0, response_key |-> EmptyKey]]
    /\ UNCHANGED <<state_store, customers, audit_logs, pg_customers, arm>>

\* `if not customer: raise HTTPException(404)`
RegenerateNotFoundNever(customer) == FALSE
RegenerateNotFound(customer) == customer = 0

\* Lines 263-272, and lines 128-139 of update_customer_api_key: the 404, or
\* the new key and the query that reads the customer's document.  The query
\* may raise, and update_customer_api_key raises ValueError when it finds
\* nothing.
regenerate_query(r, raises) ==
    /\ r \in Reqs
    /\ req[r].kind = "regenerate"
    /\ req[r].pc = "checked"
    /\ IF RegenerateNotFound(req[r].existing)
       THEN /\ ~raises
            /\ req' = [req EXCEPT ![r].pc = "done", ![r].status = 404]
            /\ UNCHANGED faults
       ELSE /\ Fault(raises)
            /\ IF raises \/ query_by_id(customers, req[r].existing) = {}
               THEN req' = [req EXCEPT ![r].pc = "done", ![r].status = 500]
               ELSE \E customer \in query_by_id(customers, req[r].existing) :
                        req' = [req EXCEPT ![r].pc = "queried",
                                           ![r].read = customer]
    /\ UNCHANGED <<nreq, state_store, customers, audit_logs, pg_customers, arm>>

\* Lines 140-143 of update_customer_api_key: replace_item writes back the
\* document the query read, with the new hash; it raises when the store does.
regenerate_update(r, raises) ==
    /\ r \in Reqs
    /\ req[r].kind = "regenerate"
    /\ req[r].pc = "queried"
    /\ Fault(raises)
    /\ LET k == generate_api_key(r) IN
       IF raises \/ query_by_id(customers, req[r].read.id) = {}
       THEN /\ req' = [req EXCEPT ![r].pc = "done", ![r].status = 500]
            /\ UNCHANGED customers
       ELSE /\ customers' = replace_api_key_hash(customers, req[r].read, k.key_hash)
            /\ req' = [req EXCEPT ![r].pc = "updated",
                                  ![r].customer_id = req[r].read.id,
                                  ![r].api_key = k.raw_key]
    /\ UNCHANGED <<nreq, state_store, audit_logs, pg_customers, arm>>

\* Lines 276-287: the awaited log_audit_event, and the response.
regenerate_audit(r, raises) ==
    /\ r \in Reqs
    /\ req[r].kind = "regenerate"
    /\ req[r].pc = "updated"
    /\ Fault(raises)
    /\ IF raises
       THEN /\ req' = [req EXCEPT ![r].pc = "done", ![r].status = 500]
            /\ UNCHANGED audit_logs
       ELSE /\ audit_logs' = log_audit_event(audit_logs,
                    audit_entry(req[r].customer_id, "api_key_regenerated",
                                req[r].tenant_id))
            /\ req' = [req EXCEPT ![r].pc = "done", ![r].status = 200,
                                  ![r].response_key = req[r].api_key]
    /\ UNCHANGED <<nreq, state_store, customers, pg_customers, arm>>

(***************************************************************************)
(* Customer Repository: PostgresCustomerService                            *)
(* (src/app/services/postgres_customer_service.py).  No handler of the     *)
(* repository calls it; its methods are modelled as calls of their own.    *)
(* Each starts with _get_engine(), then runs in one session and takes      *)
(* effect at its commit.                                                   *)
(***************************************************************************)

\* class Settings (src/app/config.py): the fields it declares.
SettingsFields ==
    {"app_name", "debug", "api_version", "multi_tenant_app_client_id",
     "multi_tenant_app_client_secret", "azure_tenant_id", "cosmos_endpoint",
     "cosmos_key", "cosmos_database_name", "key_vault_url",
     "appinsights_connection_string", "cors_origins"}

\* _get_engine: `if not settings.postgres_url` reads a field Settings does not
\* declare, which raises AttributeError; with the field it would return the
\* engine and the session factory.
AttributeError == "AttributeError"
get_engine ==
    IF "postgres_url" \in SettingsFields THEN "engine" ELSE AttributeError

\* `raw_key[:8]`: "soc_" and the first 4 characters of the body.
key_prefix(raw_key) == SubSeq(raw_key, 1, 2)

\* postgres_customer_service.generate_api_key
pg_generate_api_key(n) ==
    LET k == generate_api_key(n) IN
    [raw_key |-> k.raw_key, key_hash |-> k.key_hash,
     key_prefix |-> key_prefix(k.raw_key)]

\* The row create_customer inserts (the columns the model reads).
pg_customer_row(id, tenant_id, k) ==
    [id |-> id, tenant_id |-> tenant_id, api_key_hash |-> k.key_hash,
     api_key_prefix |-> k.key_prefix, status |-> "active"]

\* The INSERT of create_customer.  The repository declares no constraint on
\* the table, and the statement has no ON CONFLICT clause.
pg_insert(table, row) == table \cup {row}

\* PostgresCustomerService.get_customer_by_tenant: what it can answer.  It
\* raises the exception of _get_engine; past it, it would return a row of the
\* tenant ("LIMIT 1" of an unordered SELECT; the columns it selects hold no
\* key hash) or None, the customer with id 0.
pg_get_customer_by_tenant(table, tenant_id) ==
    LET rows == {x \in table : x.tenant_id = tenant_id} IN
    IF get_engine = AttributeError
    THEN {[id |-> 0, tenant_id |-> None, status |-> None, exc |-> AttributeError]}
    ELSE IF rows = {}
    THEN {[id |-> 0, tenant_id |-> None, status |-> None, exc |-> None]}
    ELSE {[id |-> x.id, tenant_id |-> x.tenant_id, status |-> x.status,
           exc |-> None] : x \in rows}

\* The UPDATE of regenerate_api_key, "WHERE id = :id".
pg_update_key(table, customer_id, k) ==
    {IF x.id = customer_id
     THEN [x EXCEPT !.api_key_hash = k.key_hash, !.api_key_prefix = k.key_prefix]
     ELSE x : x \in table}

\* PostgresCustomerService.create_customer: the exception of _get_engine ends
\* it before a key is drawn and before any statement is sent.
pg_create_customer(r, tenant_id, raises) ==
    /\ Arrives(r, CustomerKinds, MaxCustomerReqs)
    /\ nreq' = r
    /\ LET k == pg_generate_api_key(r)
           call == [kind |-> "pg_create_customer", pc |-> "done",
                    tenant_id |-> tenant_id] IN
       IF get_engine = AttributeError
       THEN /\ ~raises
            /\ req' = [req EXCEPT ![r] = call @@
                    [status |-> 500, exc |-> AttributeError, customer_id |-> 0,
                     response_key |-> EmptyKey]]
            /\ UNCHANGED <<pg_customers, faults>>
       ELSE /\ Fault(raises)
            /\ IF raises
               THEN /\ req' = [req EXCEPT ![r] = call @@
                            [status |-> 500, exc |-> "store", customer_id |-> 0,
                             response_key |-> EmptyKey]]
                    /\ UNCHANGED pg_customers
               ELSE /\ pg_customers' = pg_insert(pg_customers,
                                            pg_customer_row(r, tenant_id, k))
                    /\ req' = [req EXCEPT ![r] = call @@
                            [status |-> 200, exc |-> None, customer_id |-> r,
                             response_key |-> k.raw_key]]
    /\ UNCHANGED <<state_store, customers, audit_logs, arm>>

\* The customer ids a caller of regenerate_api_key can pass: those of the rows
\* of the table and of the documents of the container, and 0, the id of no
\* customer.
PgCustomerIds ==
    {0} \cup {x.id : x \in pg_customers} \cup {d.id : d \in customers}

\* PostgresCustomerService.regenerate_api_key: the exception of _get_engine
\* ends it as well; past it, ValueError for an id of no row.
pg_regenerate_api_key(r, customer_id, raises) ==
    /\ Arrives(r, CustomerKinds, MaxCustomerReqs)
    /\ nreq' = r
    /\ LET k == pg_generate_api_key(r)
           call == [kind |-> "pg_regenerate_api_key", pc |-> "done",
                    tenant_id |-> None] IN
       IF get_engine = AttributeError
       THEN /\ ~raises
            /\ req' = [req EXCEPT ![r] = call @@
                    [status |-> 500, exc |-> AttributeError,
                     customer_id |-> customer_id, response_key |-> EmptyKey]]
            /\ UNCHANGED <<pg_customers, faults>>
       ELSE /\ Fault(raises)
            /\ IF raises \/ ~\E x \in pg_customers : x.id = customer_id
               THEN /\ req' = [req EXCEPT ![r] = call @@
                            [status |-> 500,
                             exc |-> IF raises THEN "store" ELSE "ValueError",
                             customer_id |-> customer_id,
                             response_key |-> EmptyKey]]
                    /\ UNCHANGED pg_customers
               ELSE /\ pg_customers' = pg_update_key(pg_customers, customer_id, k)
                    /\ req' = [req EXCEPT ![r] = call @@
                            [status |-> 200, exc |-> None,
                             customer_id |-> customer_id,
                             response_key |-> k.raw_key]]
    /\ UNCHANGED <<state_store, customers, audit_logs, arm>>

NextCustomer ==
    \/ \E r \in Reqs, t \in Tenants, f \in BOOLEAN : complete_lookup(r, t, f)
    \/ \E r \in Reqs, f \in BOOLEAN : complete_create(r, f)
    \/ \E r \in Reqs, f \in BOOLEAN : complete_audit(r, f)
    \/ \E r \in Reqs, t \in Tenants, f \in BOOLEAN : regenerate_lookup(r, t, f)
    \/ \E r \in Reqs, f \in BOOLEAN : regenerate_query(r, f)
    \/ \E r \in Reqs, f \in BOOLEAN : regenerate_update(r, f)
    \/ \E r \in Reqs, f \in BOOLEAN : regenerate_audit(r, f)
    \/ \E r \in Reqs, t \in Tenants, f \in BOOLEAN : pg_create_customer(r, t, f)
    \/ \E r \in Reqs, c \in PgCustomerIds, f \in BOOLEAN :
            pg_regenerate_api_key(r, c, f)

(***************************************************************************)
(* CosmosService.get_customer_by_api_key and CosmosService.update_customer *)
(* No handler of the repository calls them; they are modelled as calls of  *)
(* their own on the container the handlers write.                          *)
(***************************************************************************)

\* The calls that draw a key: /complete and /regenerate-api-key, and the
\* calls of create_customer and of a regeneration made on the repositories.
KeyIssuingKinds == {"complete", "regenerate", "repo_create_customer",
                    "repo_regenerate_api_key"}

\* The keys a caller can present: none, a key without the prefix, a key with
\* the prefix that was never issued, and the keys issued so far, by a
\* creation or by a regeneration.
ApiKeys ==
    {EmptyKey, <<"key_">> \o token_urlsafe(1), <<"soc_">> \o token_urlsafe(0)}
        \cup {req[q].api_key : q \in {p \in Reqs : req[p].kind \in KeyIssuingKinds}}
        \cup {req[q].response_key :
                q \in {p \in Reqs : req[p].kind \in {"pg_create_customer",
                                                      "pg_regenerate_api_key"}}}

\* The values update_customer is given for "status".
CustomerStatuses == {"active", "disabled"}

\* CosmosService.update_customer with updates {"status": status}, line 120:
\* read_item reads the customer's document; it raises when the store does and
\* when the container holds no such document.
update_customer_read(r, customer_id, status, raises) ==
    /\ Arrives(r, KeyKinds, MaxKeyReqs)
    /\ nreq' = r
    /\ Fault(raises)
    /\ LET call == [kind |-> "update_customer", customer_id |-> customer_id,
                    new_status |-> status, read |-> NoCustomer] IN
       IF raises \/ query_by_id(customers, customer_id) = {}
       THEN req' = [req EXCEPT ![r] = call @@ [pc |-> "done", status |-> 500]]
       ELSE \E customer \in query_by_id(customers, customer_id) :
                req' = [req EXCEPT ![r] =
                    [call EXCEPT !.read = customer] @@ [pc |-> "read", status |-> 0]]
    /\ UNCHANGED <<state_store, customers, audit_logs, pg_customers, arm>>

\* CosmosService.update_customer, lines 121-123: replace_item writes back the
\* document read, with the updates.
update_customer_replace(r, raises) ==
    /\ r \in Reqs
    /\ req[r].kind = "update_customer"
    /\ req[r].pc = "read"
    /\ Fault(raises)
    /\ IF raises \/ query_by_id(customers, req[r].read.id) = {}
       THEN /\ req' = [req EXCEPT ![r].pc = "done", ![r].status = 500]
            /\ UNCHANGED customers
       ELSE /\ customers' = replace_item(customers, req[r].read.id,
                                [req[r].read EXCEPT !.status = req[r].new_status])
            /\ req' = [req EXCEPT ![r].pc = "done", ![r].status = 200]
    /\ UNCHANGED <<nreq, state_store, audit_logs, pg_customers, arm>>

\* A call of CosmosService.get_customer_by_api_key.  The call records how many
\* queries it sent to the store, what it returned, and the documents that held
\* the key's hash when it was made.
get_customer_by_api_key_call(r, api_key, raises) ==
    /\ Arrives(r, KeyKinds, MaxKeyReqs)
    /\ nreq' = r
    /\ LET call == [kind |-> "get_customer_by_api_key", pc |-> "done",
                    api_key |-> api_key,
                    holders |-> {[id |-> d.id, status |-> d.status] :
                                    d \in {x \in customers :
                                              x.api_key_hash = sha256(api_key)}}]
       IN IF ApiKeyRejected(api_key)
          THEN /\ ~raises
               /\ UNCHANGED faults
               /\ req' = [req EXCEPT ![r] = call @@
                        [queries |-> 0, status |-> 200, result |-> 0,
                         result_status |-> None]]
          ELSE /\ Fault(raises)
               /\ IF raises
                  THEN req' = [req EXCEPT ![r] = call @@
                        [queries |-> 1, status |-> 500, result |-> 0,
                         result_status |-> None]]
                  ELSE \E customer \in get_customer_by_api_key(customers, api_key) :
                        req' = [req EXCEPT ![r] = call @@
                            [queries |-> 1, status |-> 200, result |-> customer.id,
                             result_status |-> customer.status]]
    /\ UNCHANGED <<state_store, customers, audit_logs, pg_customers, arm>>

\* GET /customer-status: the lookup, and whether a customer exists.
check_customer_status(r, tenant_id, raises) ==
    /\ Arrives(r, KeyKinds, MaxKeyReqs)
    /\ nreq' = r
    /\ Fault(raises)
    /\ \E existing \in get_customer_by_tenant(customers, tenant_id, raises) :
        req' = [req EXCEPT ![r] =
            [kind |-> "customer_status", pc |-> "done", tenant_id |-> tenant_id,
             existing |-> existing.id, lookup_raised |-> raises,
             in_sequence |-> InSequence(tenant_id),
             status |-> 200, exists |-> existing.id # 0]]
    /\ UNCHANGED <<state_store, customers, audit_logs, pg_customers, arm>>

NextKeys ==
    \/ \E r \in Reqs, t \in Tenants, f \in BOOLEAN : check_customer_status(r, t, f)
    \/ \E r \in Reqs, t \in Tenants, f \in BOOLEAN : regenerate_lookup(r, t, f)
    \/ \E r \in Reqs, f \in BOOLEAN : regenerate_query(r, f)
    \/ \E r \in Reqs, f \in BOOLEAN : regenerate_update(r, f)
    \/ \E r \in Reqs, f \in BOOLEAN : regenerate_audit(r, f)
    \/ \E r \in Reqs, t \in Tenants, f \in BOOLEAN : complete_lookup(r, t, f)
    \/ \E r \in Reqs, f \in BOOLEAN : complete_create(r, f)
    \/ \E r \in Reqs, f \in BOOLEAN : complete_audit(r, f)
    \/ \E r \in Reqs, c \in {0} \cup {d.id : d \in customers},
          s \in CustomerStatuses, f \in BOOLEAN : update_customer_read(r, c, s, f)
    \/ \E r \in Reqs, f \in BOOLEAN : update_customer_replace(r, f)
    \/ \E r \in Reqs, k \in ApiKeys, f \in BOOLEAN :
            get_customer_by_api_key_call(r, k, f)

\* The same calls in a behaviour of no more than MaxMixedReqs requests.
NextKeysMixed ==
    \/ (\E r \in Reqs, t \in Tenants, f \in BOOLEAN : check_customer_status(r, t, f))
            /\ Within(MaxMixedReqs)
    \/ (\E r \in Reqs, t \in Tenants, f \in BOOLEAN : regenerate_lookup(r, t, f))
            /\ Within(MaxMixedReqs)
    \/ \E r \in Reqs, f \in BOOLEAN : regenerate_query(r, f)
    \/ \E r \in Reqs, f \in BOOLEAN : regenerate_update(r, f)
    \/ \E r \in Reqs, f \in BOOLEAN : regenerate_audit(r, f)
    \/ (\E r \in Reqs, t \in Tenants, f \in BOOLEAN : complete_lookup(r, t, f))
            /\ Within(MaxMixedReqs)
    \/ \E r \in Reqs, f \in BOOLEAN : complete_create(r, f)
    \/ \E r \in Reqs, f \in BOOLEAN : complete_audit(r, f)
    \/ (\E r \in Reqs, c \in {0} \cup {d.id : d \in customers},
           s \in CustomerStatuses, f \in BOOLEAN : update_customer_read(r, c, s, f))
            /\ Within(MaxMixedReqs)
    \/ \E r \in Reqs, f \in BOOLEAN : update_customer_replace(r, f)
    \/ (\E r \in Reqs, k \in ApiKeys, f \in BOOLEAN :
            get_customer_by_api_key_call(r, k, f))
            /\ Within(MaxMixedReqs)

(***************************************************************************)
(* The two customer repositories side by side: the same call is made on    *)
(* CosmosService (container customers) and on PostgresCustomerService      *)
(* (table pg_customers), and when the store fails it fails for both.  A    *)
(* call records what each variant answered.  update_customer_api_key of    *)
(* CosmosService is two round trips to its store, and two steps.           *)
(***************************************************************************)

\* What a lookup answers: found (with the tenant of the customer returned) or
\* not found; "raised" when the method raises an exception.
LookupOutcome(customer) ==
    IF customer.id = 0 THEN [outcome |-> "not_found", tenant_id |-> None]
    ELSE [outcome |-> "found", tenant_id |-> customer.tenant_id]
Raised == [outcome |-> "raised", tenant_id |-> None]

\* create_customer of both variants.
repo_create_customer(r, tenant_id, raises) ==
    /\ Arrives(r, KeyKinds, MaxKeyReqs)
    /\ nreq' = r
    /\ Fault(raises)
    /\ LET k == pg_generate_api_key(r)
           call == [kind |-> "repo_create_customer", pc |-> "done",
                    tenant_id |-> tenant_id, customer_id |-> r]
           created == [outcome |-> "created", tenant_id |-> tenant_id]
           pg_raises == raises \/ get_engine = AttributeError IN
       /\ customers' = IF raises THEN customers
                        ELSE create_item(customers,
                                customer_document(r, tenant_id, k.key_hash))
       /\ pg_customers' = IF pg_raises THEN pg_customers
                           ELSE pg_insert(pg_customers,
                                          pg_customer_row(r, tenant_id, k))
       /\ req' = [req EXCEPT ![r] = call @@
                    [api_key |-> IF raises THEN EmptyKey ELSE k.raw_key,
                     cosmos |-> IF raises THEN Raised ELSE created,
                     pg |-> IF pg_raises THEN Raised ELSE created]]
    /\ UNCHANGED <<state_store, audit_logs, arm>>

\* get_customer_by_tenant of both variants: CosmosService catches the
\* exception of its query and answers None, PostgresCustomerService does not.
repo_get_customer_by_tenant(r, tenant_id, raises) ==
    /\ Arrives(r, KeyKinds, MaxKeyReqs)
    /\ nreq' = r
    /\ Fault(raises)
    /\ \E c \in get_customer_by_tenant(customers, tenant_id, raises),
          x \in pg_get_customer_by_tenant(pg_customers, tenant_id) :
        req' = [req EXCEPT ![r] =
            [kind |-> "repo_get_customer_by_tenant", pc |-> "done",
             tenant_id |-> tenant_id, customer_id |-> 0,
             cosmos |-> LookupOutcome(c),
             pg |-> IF raises \/ x.exc # None THEN Raised ELSE LookupOutcome(x)]]
    /\ UNCHANGED <<state_store, customers, audit_logs, pg_customers, arm>>

\* The customer ids a caller can pass: those created so far, and 0, the id
\* of no customer.
RepoCustomerIds == {0} \cup {d.id : d \in customers} \cup {x.id : x \in pg_customers}

\* What a regeneration answers.
ValueError == [outcome |-> "ValueError", tenant_id |-> None]
Updated == [outcome |-> "updated", tenant_id |-> None]
Pending == [outcome |-> "pending", tenant_id |-> None]

\* regenerate_api_key of PostgresCustomerService, and update_customer_api_key
\* of CosmosService up to its query (lines 128-139): past _get_engine, both
\* raise ValueError for an unknown customer_id.  The query of CosmosService
\* reads the document its replace_item will write back.
repo_regenerate_query(r, customer_id, raises) ==
    /\ Arrives(r, KeyKinds, MaxKeyReqs)
    /\ nreq' = r
    /\ Fault(raises)
    /\ LET k == pg_generate_api_key(r)
           call == [kind |-> "repo_regenerate_api_key",
                    tenant_id |-> None, customer_id |-> customer_id,
                    api_key |-> EmptyKey]
           in_pg == \E x \in pg_customers : x.id = customer_id
           pg_raises == raises \/ get_engine = AttributeError
           pg == IF pg_raises THEN Raised
                 ELSE IF in_pg THEN Updated ELSE ValueError IN
       /\ pg_customers' = IF pg_raises \/ ~in_pg THEN pg_customers
                           ELSE pg_update_key(pg_customers, customer_id, k)
       /\ IF raises \/ query_by_id(customers, customer_id) = {}
          THEN req' = [req EXCEPT ![r] = call @@
                    [pc |-> "done", read |-> NoCustomer, pg |-> pg,
                     cosmos |-> IF raises THEN Raised ELSE ValueError]]
          ELSE \E customer \in query_by_id(customers, customer_id) :
                    req' = [req EXCEPT ![r] = call @@
                        [pc |-> "queried", read |-> customer, pg |-> pg,
                         cosmos |-> Pending]]
    /\ UNCHANGED <<state_store, customers, audit_logs, arm>>

\* Lines 140-143 of update_customer_api_key: replace_item writes back the
\* document the query read, with the new hash; it raises when the store does.
repo_regenerate_update(r, raises) ==
    /\ r \in Reqs
    /\ req[r].kind = "repo_regenerate_api_key"
    /\ req[r].pc = "queried"
    /\ Fault(raises)
    /\ LET k == pg_generate_api_key(r) IN
       IF raises \/ query_by_id(customers, req[r].read.id) = {}
       THEN /\ req' = [req EXCEPT ![r].pc = "done", ![r].cosmos = Raised]
            /\ UNCHANGED customers
       ELSE /\ customers' = replace_api_key_hash(customers, req[r].read, k.key_hash)
            /\ req' = [req EXCEPT ![r].pc = "done", ![r].cosmos = Updated,
                                  ![r].api_key = k.raw_key]
    /\ UNCHANGED <<nreq, state_store, audit_logs, pg_customers, arm>>

NextRepos ==
    \/ \E r \in Reqs, t \in Tenants, f \in BOOLEAN : repo_create_customer(r, t, f)
    \/ \E r \in Reqs, t \in Tenants, f \in BOOLEAN :
            repo_get_customer_by_tenant(r, t, f)
    \/ \E r \in Reqs, c \in RepoCustomerIds, f \in BOOLEAN :
            repo_regenerate_query(r, c, f)
    \/ \E r \in Reqs, f \in BOOLEAN : repo_regenerate_update(r, f)

(***************************************************************************)
(* POST /create-workspace                                                  *)
(***************************************************************************)

\* The statuses ARM answers a PUT with, and the "customerId" its workspace
\* response carries ("" when the response holds none).  A request records the
\* PUTs it has sent, in order, each with the response: [step, status,
\* customer_id].
ArmStatuses == {200, 201, 202, 400}
ArmCustomerIds == {"", "wsid1"}
ResourceGroups == {"rg1"}
WorkspaceNames == {"ws1"}

\* ARM holds the resource a PUT names once it answers 200, 201 or 202.
ArmPutUndoingOnFailure(resources, status, kind, name) ==
    IF status \in {200, 201, 202}
    THEN resources \cup {[kind |-> kind, name |-> name]}
    ELSE {}
ArmPut(resources, status, kind, name) ==
    IF status \in {200, 201, 202}
    THEN resources \cup {[kind |-> kind, name |-> name]}
    ELSE resources

\* `rg_response.status_code not in [200, 201]`
ResourceGroupFailedNever(status) == FALSE
ResourceGroupFailed(status) == status \notin {200, 201}

\* `workspace_response.status_code not in [200, 201, 202]`
WorkspaceFailedNever(status) == FALSE
WorkspaceFailed(status) == status \notin {200, 201, 202}

\* `sentinel_enabled = sentinel_response.status_code in [200, 201, 202]`
SentinelEnabledOnly200(status) == status = 200
SentinelEnabled(status) == status \in {200, 201, 202}

\* A /create-workspace request on arrival.
CreateWorkspaceRequest(create_resource_group, resource_group, workspace_name) ==
    [kind |-> "create_workspace", pc |-> "start",
     create_resource_group |-> create_resource_group,
     resource_group |-> resource_group, workspace_name |-> workspace_name,
     calls |-> << >>, status |-> 0, detail |-> None,
     workspace_id |-> None, sentinel_enabled |-> FALSE]

\* Lines 487-504, create_resource_group true: the PUT of the resource group
\* and the check of its response.
create_workspace_rg(r, resource_group, workspace_name, status) ==
    /\ Arrives(r, ArmKinds, MaxArmReqs)
    /\ nreq' = r
    /\ arm' = ArmPut(arm, status, "resourceGroup", resource_group)
    /\ LET q == CreateWorkspaceRequest(TRUE, resource_group, workspace_name)
           sent == [q EXCEPT !.calls = Append(@, [step |-> "resource_group",
                                                  status |-> status,
                                                  customer_id |-> None])]
       IN req' = [req EXCEPT ![r] =
            IF ResourceGroupFailed(status)
            THEN [sent EXCEPT !.pc = "done", !.status = 400,
                              !.detail = "Failed to create resource group"]
            ELSE [sent EXCEPT !.pc = "rg_done"]]
    /\ UNCHANGED <<state_store, customers, audit_logs, pg_customers, faults>>

\* Lines 506-533: the PUT of the workspace and the check of its response.
WorkspaceStep(q, status, customer_id) ==
    LET sent == [q EXCEPT !.calls = Append(@, [step |-> "workspace",
                                               status |-> status,
                                               customer_id |-> customer_id])]
    IN  IF WorkspaceFailed(status)
        THEN [sent EXCEPT !.pc = "done", !.status = 400,
                          !.detail = "Failed to create workspace"]
        ELSE [sent EXCEPT !.pc = "ws_done", !.workspace_id = customer_id]

\* The workspace step of a request with create_resource_group false: the
\* handler's first await.
create_workspace_ws_first(r, resource_group, workspace_name, status, customer_id) ==
    /\ Arrives(r, ArmKinds, MaxArmReqs)
    /\ nreq' = r
    /\ arm' = ArmPut(arm, status, "workspace", workspace_name)
    /\ req' = [req EXCEPT ![r] =
            WorkspaceStep(CreateWorkspaceRequest(FALSE, resource_group,
                                                 workspace_name),
                          status, customer_id)]
    /\ UNCHANGED <<state_store, customers, audit_logs, pg_customers, faults>>

\* The workspace step after a resource-group step that succeeded.
create_workspace_ws(r, status, customer_id) ==
    /\ r \in Reqs
    /\ req[r].kind = "create_workspace"
    /\ req[r].pc = "rg_done"
    /\ arm' = ArmPut(arm, status, "workspace", req[r].workspace_name)
    /\ req' = [req EXCEPT ![r] = WorkspaceStep(@, status, customer_id)]
    /\ UNCHANGED <<nreq, state_store, customers, audit_logs, pg_customers, faults>>

\* Lines 535-565: the PUT of the Sentinel solution, and the response.
create_workspace_sentinel(r, status) ==
    /\ r \in Reqs
    /\ req[r].kind = "create_workspace"
    /\ req[r].pc = "ws_done"
    /\ arm' = ArmPut(arm, status, "sentinel", req[r].workspace_name)
    /\ req' = [req EXCEPT ![r] =
            [@ EXCEPT !.calls = Append(@, [step |-> "sentinel", status |-> status,
                                           customer_id |-> None]),
                      !.pc = "done", !.status = 200,
                      !.sentinel_enabled = SentinelEnabled(status)]]
    /\ UNCHANGED <<nreq, state_store, customers, audit_logs, pg_customers, faults>>

NextArm ==
    \/ \E r \in Reqs, g \in ResourceGroups, w \in WorkspaceNames, s \in ArmStatuses :
            create_workspace_rg(r, g, w, s)
    \/ \E r \in Reqs, g \in ResourceGroups, w \in WorkspaceNames, s \in ArmStatuses,
          c \in ArmCustomerIds :
            create_workspace_ws_first(r, g, w, s, c)
    \/ \E r \in Reqs, s \in ArmStatuses, c \in ArmCustomerIds :
            create_workspace_ws(r, s, c)
    \/ \E r \in Reqs, s \in ArmStatuses : create_workspace_sentinel(r, s)

(***************************************************************************)
(* POST /create-automation-rule                                            *)
(***************************************************************************)

\* The statuses ARM answers the PUT of the role assignment with.
RoleStatuses == {200, 201, 409, 400}

\* `role_response.status_code not in [200, 201, 409]` (negated): the branch
\* that reports the permissions as granted.  Both branches only print.
RoleGranted(status) == status \in {200, 201, 409}

\* `response.status_code not in [200, 201, 202]`
RuleFailedOn202(status) == status \notin {200, 201}
RuleFailed(status) == status \notin {200, 201, 202}

\* `secrets.token_urlsafe(16)` and `f"SOC-T0-Auto-Analyze-{...}"`: the names
\* request number r draws.
role_assignment_name(r) == "role-" \o ToString(r)
automation_rule_name(r) == "SOC-T0-Auto-Analyze-" \o ToString(r)

\* A /create-automation-rule request on arrival.
CreateAutomationRuleRequest(resource_group, workspace_name) ==
    [kind |-> "create_automation_rule", pc |-> "start",
     resource_group |-> resource_group, workspace_name |-> workspace_name,
     calls |-> << >>, role_granted |-> FALSE, status |-> 0, detail |-> None,
     rule_status |-> None, automation_rule_name |-> None]

\* Lines 620-642: the PUT of the role assignment; its response changes only
\* what is printed.
create_automation_rule_role(r, resource_group, workspace_name, status) ==
    /\ Arrives(r, RuleKinds, MaxRuleReqs)
    /\ nreq' = r
    /\ arm' = ArmPut(arm, status, "roleAssignment", role_assignment_name(r))
    /\ req' = [req EXCEPT ![r] =
            [CreateAutomationRuleRequest(resource_group, workspace_name)
                EXCEPT !.calls = Append(@, [step |-> "role", status |-> status,
                                            customer_id |-> None]),
                       !.role_granted = RoleGranted(status),
                       !.pc = "role_done"]]
    /\ UNCHANGED <<state_store, customers, audit_logs, pg_customers, faults>>

\* Lines 644-689: the PUT of the automation rule, the check of its response
\* and the answer.
create_automation_rule_rule(r, status) ==
    /\ r \in Reqs
    /\ req[r].kind = "create_automation_rule"
    /\ req[r].pc = "role_done"
    /\ arm' = ArmPut(arm, status, "automationRule", automation_rule_name(r))
    /\ LET sent == [req[r] EXCEPT !.calls = Append(@, [step |-> "rule",
                                                       status |-> status,
                                                       customer_id |-> None]),
                                  !.pc = "done"]
       IN req' = [req EXCEPT ![r] =
            IF RuleFailed(status)
            THEN [sent EXCEPT !.status = 400,
                              !.detail = "Failed to create automation rule"]
            ELSE [sent EXCEPT !.status = 200, !.rule_status = "created",
                              !.automation_rule_name = automation_rule_name(r)]]
    /\ UNCHANGED <<nreq, state_store, customers, audit_logs, pg_customers, faults>>

NextRule ==
    \/ \E r \in Reqs, g \in ResourceGroups, w \in WorkspaceNames, s \in RoleStatuses :
            create_automation_rule_role(r, g, w, s)
    \/ \E r \in Reqs, s \in ArmStatuses : create_automation_rule_rule(r, s)

(***************************************************************************)
(* GET /workspaces and GET /subscriptions                                  *)
(***************************************************************************)

\* What ARM answers: a status; for the subscription listing the "value" list
\* of subscriptions; for a workspace listing the "value" list of workspaces.
ListStatuses == {200, 403}
SubscriptionIds == {"s1", "s2"}
SubscriptionStates == {"Enabled", "Disabled"}
Subscriptions == [subscriptionId : SubscriptionIds, state : SubscriptionStates]
SubscriptionLists ==
    {subs \in UNION {[1..n -> Subscriptions] : n \in 0..MaxSubs} :
        \A a, b \in 1..Len(subs) :
            a # b => subs[a].subscriptionId # subs[b].subscriptionId}

\* A workspace as ARM lists it; its "id" is the sequence of the parts between
\* the slashes.
ArmWorkspace(sub_id, name) ==
    [name |-> name, customerId |-> "wsid1",
     id |-> <<"", "subscriptions", sub_id, "resourceGroups", "rg1", "providers",
              "Microsoft.OperationalInsights", "workspaces", name>>]
WorkspaceLists(sub_id) == {<< >>, <<ArmWorkspace(sub_id, "w1")>>}

\* Lines 181-184: the resource group, the part of the id after
\* "resourceGroups" ("" when the id has no such part).
resource_group_of(parts) ==
    LET at == {k \in 1..Len(parts) : parts[k] = "resourceGroups"} IN
    IF at = {} THEN "" ELSE parts[Min(at) + 1]

\* Lines 204-212: the WorkspaceInfo appended to the result.
WorkspaceInfo(sub_id, ws, sentinel_enabled) ==
    [subscription_id |-> sub_id, resource_group |-> resource_group_of(ws.id),
     workspace_name |-> ws.name, workspace_id |-> ws.customerId,
     sentinel_enabled |-> sentinel_enabled]

\* `for sub in subscriptions`: the subscriptions the loop visits.
Visits(sub) == TRUE

\* `if ws_response.status_code == 200`
WorkspaceListingOkAlways(status) == TRUE
WorkspaceListingOk(status) == status = 200

\* The loop of line 163 goes on to its next subscription, or the handler
\* returns (line 219).
NextSubscription(q) ==
    LET later == {k \in (q.i + 1)..Len(q.subscriptions) : Visits(q.subscriptions[k])}
    IN  IF later # {}
        THEN [q EXCEPT !.i = Min(later), !.pc = "workspaces", !.ws_list = << >>, !.j = 0]
        ELSE [q EXCEPT !.i = Len(q.subscriptions) + 1, !.pc = "done", !.status = 200,
                       !.ws_list = << >>, !.j = 0]

\* Lines 147-160: the listing of the subscriptions.
list_workspaces_subs(r, status, subs) ==
    /\ Arrives(r, ListKinds, MaxListReqs)
    /\ nreq' = r
    /\ LET q == [kind |-> "list_workspaces", pc |-> "start", status |-> 0,
                 subs_status |-> status, subscriptions |-> << >>, i |-> 0, ws_list |-> << >>, j |-> 0,
                 workspaces |-> << >>, errors |-> << >>,
                 subscriptions_found |-> 0, workspaces_checked |-> 0,
                 calls |-> << >>]
       IN req' = [req EXCEPT ![r] =
            IF status # 200
            THEN [q EXCEPT !.pc = "done", !.status = 400]
            ELSE NextSubscription([q EXCEPT !.subscriptions = subs,
                                            !.subscriptions_found = Len(subs)])]
    /\ UNCHANGED <<state_store, customers, audit_logs, pg_customers, faults, arm>>

\* The inner loop of line 178 starts on workspace j of the listing (line 179).
NextWorkspace(q, j) ==
    [q EXCEPT !.j = j, !.workspaces_checked = @ + 1, !.pc = "sentinel"]

\* Lines 164-178 and 213-216: the listing of the workspaces of subscription i.
\* A request records the listings it has asked for: [sub_id, status, names].
list_workspaces_ws(r, status, ws_list) ==
    /\ r \in Reqs
    /\ req[r].kind = "list_workspaces"
    /\ req[r].pc = "workspaces"
    /\ LET sub_id == req[r].subscriptions[req[r].i].subscriptionId
           listed == IF status = 200 THEN ws_list ELSE << >>
           sent == [req[r] EXCEPT !.calls = Append(@,
                        [sub_id |-> sub_id, status |-> status,
                         names |-> [k \in 1..Len(listed) |-> listed[k].name]])]
       IN /\ ws_list \in WorkspaceLists(sub_id)
          /\ req' = [req EXCEPT ![r] =
                IF WorkspaceListingOk(status)
                THEN IF ws_list = << >> THEN NextSubscription(sent)
                     ELSE NextWorkspace([sent EXCEPT !.ws_list = ws_list], 1)
                ELSE NextSubscription([sent EXCEPT !.errors = Append(@, sub_id)])]
    /\ UNCHANGED <<nreq, state_store, customers, audit_logs, pg_customers, faults, arm>>

\* Lines 204-212: workspace j is appended, and the loops go on.
AppendWorkspace(q, sentinel_enabled) ==
    LET info == WorkspaceInfo(q.subscriptions[q.i].subscriptionId,
                              q.ws_list[q.j], sentinel_enabled)
        appended == [q EXCEPT !.workspaces = Append(@, info)]
    IN  IF q.j < Len(q.ws_list) THEN NextWorkspace(appended, q.j + 1)
        ELSE NextSubscription(appended)

\* Lines 187-194 and 201-202: the probe of the SecurityInsights solution.
list_workspaces_sentinel(r, status, raises) ==
    /\ r \in Reqs
    /\ req[r].kind = "list_workspaces"
    /\ req[r].pc = "sentinel"
    /\ req' = [req EXCEPT ![r] =
            IF ~raises /\ status = 200 THEN [@ EXCEPT !.pc = "onboard"]
            ELSE AppendWorkspace(@, FALSE)]
    /\ UNCHANGED <<nreq, state_store, customers, audit_logs, pg_customers, faults, arm>>

\* Lines 195-202: the probe of the onboarding state.
list_workspaces_onboard(r, status, raises) ==
    /\ r \in Reqs
    /\ req[r].kind = "list_workspaces"
    /\ req[r].pc = "onboard"
    /\ req' = [req EXCEPT ![r] = AppendWorkspace(@, ~raises /\ status = 200)]
    /\ UNCHANGED <<nreq, state_store, customers, audit_logs, pg_customers, faults, arm>>

\* `if s.get("state") == "Enabled"` of list_subscriptions.
SubscriptionListed(sub) == sub.state = "Enabled"

\* GET /subscriptions: one listing, and the subscriptions that are Enabled.
list_subscriptions(r, status, subs) ==
    /\ Arrives(r, ListKinds, MaxListReqs)
    /\ nreq' = r
    /\ req' = [req EXCEPT ![r] =
            [kind |-> "list_subscriptions", pc |-> "done",
             status |-> IF status # 200 THEN 400 ELSE 200,
             listed |-> IF status # 200 THEN << >> ELSE subs,
             subscriptions |->
                IF status # 200 THEN << >>
                ELSE SelectSeq(subs, LAMBDA sub : SubscriptionListed(sub))]]
    /\ UNCHANGED <<state_store, customers, audit_logs, pg_customers, faults, arm>>

NextList ==
    \/ \E r \in Reqs, s \in ListStatuses, subs \in SubscriptionLists :
            list_workspaces_subs(r, s, subs)
    \/ \E r \in Reqs, s \in ListStatuses,
          l \in UNION {WorkspaceLists(i) : i \in SubscriptionIds} :
            list_workspaces_ws(r, s, l)
    \/ \E r \in Reqs, s \in ListStatuses, f \in BOOLEAN :
            list_workspaces_sentinel(r, s, f)
    \/ \E r \in Reqs, s \in ListStatuses, f \in BOOLEAN :
            list_workspaces_onboard(r, s, f)
    \/ \E r \in Reqs, s \in ListStatuses, subs \in SubscriptionLists :
            list_subscriptions(r, s, subs)

Init ==
    /\ req = [r \in Reqs |-> Idle]
    /\ nreq = 0
    /\ state_store = << >>
    /\ customers = {}
    /\ audit_logs = << >>
    /\ pg_customers = {}
    /\ faults = 0
    /\ arm = {}

SpecOAuth == Init /\ [][NextOAuth]_vars

SpecCustomer == Init /\ [][NextCustomer]_vars

SpecArm == Init /\ [][NextArm]_vars

SpecRule == Init /\ [][NextRule]_vars

SpecKeys == Init /\ [][NextKeysMixed]_vars

SpecRepos == Init /\ [][NextRepos]_vars

\* A step that leaves no more than MaxArmRuleReqs requests to /create-workspace
\* and no more than that to /create-automation-rule.
FewArmRuleReqs ==
    /\ Arrived(ArmKinds)' <= MaxArmRuleReqs
    /\ Arrived(RuleKinds)' <= MaxArmRuleReqs

\* The stages of an onboarding together: workspace creation, completion and
\* automation-rule creation.
NextStages ==
    \/ NextArm /\ FewArmRuleReqs /\ Within(MaxMixedReqs)
    \/ NextRule /\ FewArmRuleReqs /\ Within(MaxMixedReqs)
    \/ (\E r \in Reqs, t \in Tenants, f \in BOOLEAN : complete_lookup(r, t, f))
            /\ Within(MaxMixedReqs)
    \/ \E r \in Reqs, f \in BOOLEAN : complete_create(r, f)
    \/ \E r \in Reqs, f \in BOOLEAN : complete_audit(r, f)

SpecStages == Init /\ [][NextStages]_vars

SpecList == Init /\ [][NextList]_vars

\* The handlers that call the identity provider or send PUTs to ARM.
NextOutbound ==
    \/ NextOAuth
    \/ NextArm /\ FewArmRuleReqs
    \/ NextRule /\ FewArmRuleReqs

SpecOutbound == Init /\ [][NextOutbound]_vars

Next == NextOAuth \/ NextCustomer \/ NextKeys \/ NextRepos \/ NextArm \/ NextRule \/ NextList

Spec == Init /\ [][Next]_vars

(***************************************************************************)
(* Properties of the State Token Store (specification SpecOAuth).          *)
(***************************************************************************)

\* The state tokens /auth-url has issued.
IssuedStates == {q \in Reqs : req[q].kind = "auth_url"}

\* The /callback requests received so far that carried token t and no error
\* (no error parameter, or an empty one).  Request numbers are arrival order, and a callback validates its
\* token in its first step, so the least of them is the first such callback.
Carried(t) == {q \in Reqs : /\ req[q].kind = "callback"
                            /\ req[q].state = t
                            /\ req[q].error \in {None, ""}}

RejectedInvalidState(q) ==
    /\ ~req[q].valid
    /\ req[q].pc = "done"
    /\ req[q].status = 400
    /\ req[q].detail = "Invalid state token"

\* C1: an issued state token passes validation exactly once.  The token is in
\* the state store until the first callback carrying it (without an error
\* parameter) arrives; that callback passes validation and removes it; every
\* later callback carrying it is answered 400 "Invalid state token".
C1_StateTokenConsumedOnce ==
    \A t \in IssuedStates :
        /\ (t \in DOMAIN state_store) <=> (Carried(t) = {})
        /\ \A q \in Carried(t) :
                IF q = Min(Carried(t)) THEN req[q].valid
                ELSE RejectedInvalidState(q)

\* C1's case: a token was consumed by one callback and a later callback
\* carrying it has been rejected.
C1_Witness ==
    \E t \in IssuedStates : \E q1, q2 \in Carried(t) :
        /\ q1 < q2
        /\ req[q1].valid
        /\ RejectedInvalidState(q2)

\* C4: of the callbacks racing on one valid state token exactly one passes
\* validation and goes on to the token exchange; every other one is answered
\* 400, whatever the other handlers have done in the meantime.
C4_RacingCallbacksOneWinner ==
    \A t \in IssuedStates :
        Carried(t) # {} =>
            /\ Cardinality({q \in Carried(t) : req[q].valid}) = 1
            /\ \A q \in Carried(t) :
                    /\ req[q].valid =>
                            \/ req[q].pc = "exchange"
                            \/ req[q].exchanges = 1
                    /\ ~req[q].valid => req[q].status = 400 /\ req[q].exchanges = 0

\* C4's case: two callbacks with the same token overlap: the winner is still
\* waiting for the token exchange when the other has been answered 400.
C4_Witness ==
    \E t \in IssuedStates : \E q1, q2 \in Carried(t) :
        /\ q1 # q2
        /\ req[q1].valid /\ req[q1].pc = "exchange"
        /\ req[q2].pc = "done" /\ req[q2].status = 400

(***************************************************************************)
(* Properties of the customer records (specification SpecCustomer).        *)
(***************************************************************************)

\* The requests to /complete and to /regenerate-api-key.
CompleteReqs == {q \in Reqs : req[q].kind = "complete"}
RegenerateReqs == {q \in Reqs : req[q].kind = "regenerate"}
KeyReqs == CompleteReqs \cup RegenerateReqs

\* The active customer records of a tenant.
ActiveOf(t) == {d \in customers : d.tenant_id = t /\ d.status = "active"}

\* C2: the customer store holds at most one active Customer record per
\* tenant_id, in every reachable state.
C2_AtMostOneActivePerTenant ==
    \A t \in Tenants : Cardinality(ActiveOf(t)) <= 1

\* The audit entries written for customer id c.
AuditEntriesOf(c) == {e \in DOMAIN audit_logs : e.customer_id = c}

\* C3: a /complete that arrives after an earlier /complete for the same tenant
\* has created its record and returned, and whose existence lookup works, is
\* answered 409; it creates no Customer record and no audit event, and when
\* these two are the tenant's only /complete calls the store holds exactly the
\* record of the first.
C3_SecondCompleteConflicts ==
    \A q \in CompleteReqs :
        (req[q].in_sequence /\ ~req[q].lookup_raised) =>
            /\ req[q].existing # 0
            /\ req[q].pc = "done" => req[q].status = 409
            /\ req[q].customer_id = 0
            /\ req[q].response_key = EmptyKey
            /\ ~\E d \in customers : d.id = q
            /\ AuditEntriesOf(q) = {}
            /\ \A a \in CompleteReqs :
                    (/\ CompleteReqs = {a, q}
                     /\ a # q
                     /\ req[a].tenant_id = req[q].tenant_id)
                    => {d.id : d \in query_by_tenant(customers, req[q].tenant_id)}
                            = {a}

\* C3's case: the second of two /complete calls in sequence has returned 409.
C3_Witness ==
    \E q \in CompleteReqs :
        /\ req[q].in_sequence
        /\ ~req[q].lookup_raised
        /\ req[q].pc = "done"
        /\ req[q].status = 409

\* Two /complete calls for one tenant that both passed the existence check
\* (neither lookup raised, neither found a record).
BothPassedCheck(a, b) ==
    /\ a # b
    /\ req[a].tenant_id = req[b].tenant_id
    /\ ~req[a].lookup_raised /\ ~req[b].lookup_raised
    /\ req[a].existing = 0 /\ req[b].existing = 0

\* The calls of PostgresCustomerService.create_customer.
PgCreates == {q \in Reqs : req[q].kind = "pg_create_customer"}

\* C5: while no store operation fails, two /complete calls for one tenant that
\* have both passed the existence check both create a record and both return
\* 200, with different customer ids and different API keys, and the tenant
\* has both records; and neither repository backend rejects a second insert
\* for a tenant: of two calls of PostgresCustomerService.create_customer for
\* one tenant, both answer with a customer, of different ids and keys, and
\* the table holds both rows.
C5_ConcurrentCompletesBothCreate ==
    faults = 0 =>
        /\ \A a, b \in CompleteReqs :
                (/\ BothPassedCheck(a, b)
                 /\ req[a].pc = "done" /\ req[b].pc = "done")
                => /\ req[a].status = 200 /\ req[b].status = 200
                   /\ req[a].customer_id # req[b].customer_id
                   /\ req[a].response_key # EmptyKey
                   /\ req[b].response_key # EmptyKey
                   /\ req[a].response_key # req[b].response_key
                   /\ {req[a].customer_id, req[b].customer_id}
                        \subseteq {d.id : d \in ActiveOf(req[a].tenant_id)}
        /\ \A a, b \in PgCreates :
                (a # b /\ req[a].tenant_id = req[b].tenant_id)
                => /\ req[a].status = 200 /\ req[b].status = 200
                   /\ req[a].customer_id # req[b].customer_id
                   /\ req[a].response_key # EmptyKey
                   /\ req[b].response_key # EmptyKey
                   /\ req[a].response_key # req[b].response_key
                   /\ {req[a].customer_id, req[b].customer_id}
                        \subseteq {x.id : x \in {y \in pg_customers :
                                        y.tenant_id = req[a].tenant_id}}

\* C5's case: two overlapping /complete calls for one tenant have both passed
\* the check and both returned 200.
C5_Witness ==
    \E a, b \in CompleteReqs :
        /\ BothPassedCheck(a, b)
        /\ ~req[b].alone
        /\ req[a].status = 200 /\ req[b].status = 200

Max(S) == CHOOSE x \in S : \A y \in S : x >= y

\* Whether raw key k resolves to a customer of tenant t.
Resolves(k, t) ==
    \E d \in get_customer_by_api_key(customers, k) : d.id # 0 /\ d.tenant_id = t
ResolvesToNone(k) == get_customer_by_api_key(customers, k) = {NoCustomer}

\* The calls for tenant t that returned a key: the successful creates and
\* regenerations.
Successful(t) ==
    {q \in KeyReqs : req[q].tenant_id = t /\ req[q].status = 200}

\* C6: after any sequence of /complete and /regenerate-api-key calls (each
\* arrived after the one before had returned), the key returned by a tenant's
\* most recent successful call resolves to that tenant's customer, and every
\* key an earlier successful call of the tenant returned does not resolve.
C6_LatestKeyResolves ==
    (\A q \in KeyReqs : req[q].alone /\ req[q].pc = "done") =>
        \A t \in Tenants :
            Successful(t) # {} =>
                LET last == Max(Successful(t)) IN
                /\ Resolves(req[last].response_key, t)
                /\ \A q \in Successful(t) \ {last} :
                        ResolvesToNone(req[q].response_key)

\* C7: every record or key hash written to the store has its raw key
\* delivered in the response of the call that generated it, and no other call
\* returns that key.
C7_RawKeyReturnedExactlyOnce ==
    /\ \A q \in KeyReqs :
            (req[q].pc = "done" /\ req[q].customer_id # 0) =>
                /\ req[q].response_key = req[q].api_key
                /\ req[q].response_key # EmptyKey
    /\ \A q1, q2 \in KeyReqs :
            (q1 # q2 /\ req[q1].response_key # EmptyKey) =>
                req[q1].response_key # req[q2].response_key

\* The fields of a stored record that are derived from the API key.
KeyFields(record) ==
    DOMAIN record \cap {"api_key", "api_key_hash", "api_key_prefix"}

\* The raw keys that have been returned to a caller.
ReturnedKeys ==
    {req[q].response_key :
        q \in {x \in Reqs : /\ req[x].kind \in {"complete", "regenerate",
                                                  "pg_create_customer",
                                                  "pg_regenerate_api_key"}
                            /\ req[x].response_key # EmptyKey}}

\* create_customer followed by get_customer_by_tenant, in both backends, with
\* nothing raising in the store: create_customer answers with the customer it
\* stored, and the customer get_customer_by_tenant then returns is of the
\* tenant created.
CreateThenGetByTenant ==
    /\ \A q \in CompleteReqs :
            req[q].customer_id # 0 =>
                \A d \in get_customer_by_tenant(customers, req[q].tenant_id, FALSE) :
                    d.id # 0 /\ d.tenant_id = req[q].tenant_id
    /\ \A q \in Reqs :
            (req[q].kind = "pg_create_customer" /\ req[q].exc # "store") =>
                /\ req[q].status = 200
                /\ \A x \in pg_get_customer_by_tenant(pg_customers, req[q].tenant_id) :
                        x.exc = None /\ x.id # 0 /\ x.tenant_id = req[q].tenant_id

\* No key hash stored equals a raw key returned to a caller.
HashNeverRawKey ==
    \A d \in customers \cup pg_customers : d.api_key_hash \notin ReturnedKeys

\* C8: create_customer followed by get_customer_by_tenant returns a Customer
\* of the tenant created, and a stored record holds, of the key, only
\* api_key_hash, which never equals a raw key returned to a caller.
C8_StoredRecordHoldsOnlyHash ==
    /\ CreateThenGetByTenant
    /\ HashNeverRawKey
    /\ \A d \in customers \cup pg_customers : KeyFields(d) = {"api_key_hash"}

(***************************************************************************)
(* Properties of /create-workspace (specification SpecArm).                *)
(***************************************************************************)

CreateWorkspaceReqs == {q \in Reqs : req[q].kind = "create_workspace"}

\* The PUTs request q has sent for one step of create_workspace.
CallsOf(q, step) ==
    {i \in 1..Len(req[q].calls) : req[q].calls[i].step = step}

\* C9: a create_workspace whose Sentinel PUT has been answered returns a
\* successful response with the workspace_id of the workspace step, whatever
\* the Sentinel status; sentinel_enabled is true exactly when that status is
\* 200, 201 or 202.
C9_SentinelFailureNotFatal ==
    \A q \in CreateWorkspaceReqs :
        \A i \in CallsOf(q, "sentinel") :
            /\ req[q].pc = "done"
            /\ req[q].status = 200
            /\ req[q].sentinel_enabled <=>
                    req[q].calls[i].status \in {200, 201, 202}
            /\ \E j \in CallsOf(q, "workspace") :
                    /\ j < i
                    /\ req[q].workspace_id = req[q].calls[j].customer_id

\* C9's case: the resource-group and workspace steps succeeded, the Sentinel
\* PUT was answered 400, and the call returned 200 with the workspace's id.
C9_Witness ==
    \E q \in CreateWorkspaceReqs :
        /\ req[q].create_resource_group
        /\ \E i \in CallsOf(q, "sentinel") : req[q].calls[i].status = 400
        /\ req[q].status = 200
        /\ req[q].workspace_id = "wsid1"
        /\ ~req[q].sentinel_enabled

\* A response that is not a success (2xx).
NonSuccess(status) == status \notin 200..299

\* C10: a non-success answer to the resource-group PUT or to the workspace PUT
\* is the last PUT of its request, which returns 400; the steps are sent in
\* order, each at most once, and a request with create_resource_group false
\* sends no resource-group PUT.
C10_FatalStepsAbort ==
    \A q \in CreateWorkspaceReqs :
        /\ \A i \in 1..Len(req[q].calls) :
              (/\ req[q].calls[i].step \in {"resource_group", "workspace"}
               /\ NonSuccess(req[q].calls[i].status))
              => /\ i = Len(req[q].calls)
                 /\ req[q].pc = "done"
                 /\ req[q].status = 400
        /\ \A i \in CallsOf(q, "workspace") : \A j \in CallsOf(q, "resource_group") :
              j < i /\ ~NonSuccess(req[q].calls[j].status)
        /\ \A i \in CallsOf(q, "sentinel") : \E j \in CallsOf(q, "workspace") :
              j < i /\ ~NonSuccess(req[q].calls[j].status)
        /\ ~req[q].create_resource_group => CallsOf(q, "resource_group") = {}
        /\ req[q].create_resource_group =>
              (req[q].calls # << >> => req[q].calls[1].step = "resource_group")

\* C10's case: one request was aborted by a failed resource-group PUT and
\* another, with create_resource_group false, by a failed workspace PUT.
C10_Witness ==
    \E q1, q2 \in CreateWorkspaceReqs :
        /\ req[q1].create_resource_group
        /\ Len(req[q1].calls) = 1
        /\ NonSuccess(req[q1].calls[1].status)
        /\ req[q1].status = 400
        /\ ~req[q2].create_resource_group
        /\ Len(req[q2].calls) = 1
        /\ NonSuccess(req[q2].calls[1].status)
        /\ req[q2].status = 400

(***************************************************************************)
(* Properties of /create-automation-rule (specification SpecRule).         *)
(***************************************************************************)

CreateRuleReqs == {q \in Reqs : req[q].kind = "create_automation_rule"}

\* C11: the outcome of create_automation_rule depends only on the rule PUT.
\* Whatever the role-assignment PUT answers, the handler goes on to the rule
\* PUT; the rule PUT is its last call, and the request answers status
\* "created" when the rule PUT answered 200, 201 or 202 and 400 otherwise.
C11_OutcomeDependsOnRuleStepOnly ==
    \A q \in CreateRuleReqs :
        /\ Len(req[q].calls) >= 1
        /\ req[q].calls[1].step = "role"
        /\ req[q].pc = "role_done" =>
                /\ Len(req[q].calls) = 1
                /\ req[q].status = 0
        /\ req[q].pc = "done" =>
                /\ Len(req[q].calls) = 2
                /\ req[q].calls[2].step = "rule"
                /\ IF req[q].calls[2].status \in {200, 201, 202}
                   THEN req[q].status = 200 /\ req[q].rule_status = "created"
                   ELSE req[q].status = 400 /\ req[q].rule_status = None
        /\ req[q].pc \in {"role_done", "done"}

\* A role assignment that failed outright followed by a rule that was
\* accepted (202), and a role assignment that "already exists" followed by a
\* rule that failed.
C11_Witness ==
    /\ \E q \in CreateRuleReqs :
            /\ req[q].pc = "done"
            /\ req[q].calls[1].status = 400
            /\ req[q].calls[2].status = 202
            /\ req[q].rule_status = "created"
    /\ \E q \in CreateRuleReqs :
            /\ req[q].pc = "done"
            /\ req[q].calls[1].status = 409
            /\ req[q].calls[2].status = 400
            /\ req[q].status = 400

(***************************************************************************)
(* Properties of the audit trail (specification SpecCustomer).             *)
(***************************************************************************)

\* Request q ended in the exception of log_audit_event: its store write
\* (create_customer or update_customer_api_key) had succeeded.
AuditFailedAfterWrite(q) ==
    /\ q \in KeyReqs
    /\ req[q].pc = "done"
    /\ req[q].status = 500
    /\ req[q].customer_id # 0

\* The key hash of document d was written by a /regenerate-api-key other than q.
OverwrittenByAnother(q, d) ==
    \E q2 \in RegenerateReqs \ {q} :
        /\ req[q2].customer_id = d.id
        /\ d.api_key_hash = sha256(req[q2].api_key)

\* C12: a failed audit write rolls nothing back.  When log_audit_event raises
\* after create_customer or update_customer_api_key succeeded, the customer
\* record stays in the store, active, for the same tenant, and its key hash is
\* the one that request wrote (until another regeneration overwrites it).
C12_AuditFailureKeepsPrimaryWrite ==
    \A q \in Reqs :
        AuditFailedAfterWrite(q) =>
            \E d \in customers :
                /\ d.id = req[q].customer_id
                /\ d.tenant_id = req[q].tenant_id
                /\ d.status = "active"
                /\ \/ d.api_key_hash = sha256(req[q].api_key)
                   \/ OverwrittenByAnother(q, d)
                /\ \A d2 \in customers : d2.id = d.id => d2 = d

\* A /regenerate-api-key whose audit write raised after it had overwritten the
\* hash of a customer an earlier /complete created: the new hash is stored.
C12_Witness ==
    \E q \in RegenerateReqs :
        /\ AuditFailedAfterWrite(q)
        /\ \E d \in customers :
                /\ d.id = req[q].customer_id
                /\ d.id # q
                /\ d.api_key_hash = sha256(req[q].api_key)
        /\ AuditEntriesOf(req[q].customer_id) =
                {audit_entry(req[q].customer_id, "customer_onboarded",
                             req[q].tenant_id)}

\* The audit event a /complete or /regenerate-api-key request documents its
\* store write with.
EventType(q) ==
    IF req[q].kind = "complete" THEN "customer_onboarded" ELSE "api_key_regenerated"
AuditEventOf(q) == audit_entry(req[q].customer_id, EventType(q), req[q].tenant_id)

\* The requests that made their store write and have returned, and those of
\* them whose audit write succeeded (they answered 200).
Wrote(q) == q \in KeyReqs /\ req[q].pc = "done" /\ req[q].customer_id # 0
WroteAndAudited(q) == Wrote(q) /\ req[q].status = 200

\* How many documents of audit_logs hold entry e.
AuditCount(e) == IF e \in DOMAIN audit_logs THEN audit_logs[e] ELSE 0

\* C13 as stated: every /complete that creates a customer and every
\* /regenerate-api-key that overwrites a key hash appends one audit event with
\* the customer's id, and nothing else appends one: each event is in
\* audit_logs once for every returned request that made the store write.
C13_EveryWriteAudited ==
    /\ \A q \in KeyReqs : Wrote(q) =>
            AuditCount(AuditEventOf(q)) =
                Cardinality({q2 \in KeyReqs : Wrote(q2) /\ AuditEventOf(q2) = AuditEventOf(q)})
    /\ \A e \in DOMAIN audit_logs : \E q \in KeyReqs : Wrote(q) /\ AuditEventOf(q) = e

\* C13, amended: the audit event is appended once for every request whose store
\* write and audit write both succeeded (it answered 200), after the store
\* write; a request whose audit write raised, or that was rejected with 409 or
\* 404, or that has not yet reached its audit write, has appended none.
C13_AuditedWhenAuditWriteSucceeds ==
    /\ \A q \in KeyReqs : WroteAndAudited(q) =>
            AuditCount(AuditEventOf(q)) =
                Cardinality({q2 \in KeyReqs :
                                WroteAndAudited(q2) /\ AuditEventOf(q2) = AuditEventOf(q)})
    /\ \A e \in DOMAIN audit_logs :
            \E q \in KeyReqs : WroteAndAudited(q) /\ AuditEventOf(q) = e
    /\ \A q \in KeyReqs : req[q].status = 200 => Wrote(q)
    /\ \A q \in KeyReqs : req[q].status \in {404, 409} => req[q].customer_id = 0

\* A /complete and a /regenerate-api-key of the same customer that both
\* answered 200, and a call that was rejected with 404.
C13_Witness ==
    \E q1 \in CompleteReqs, q2 \in RegenerateReqs, q3 \in RegenerateReqs :
        /\ WroteAndAudited(q1)
        /\ WroteAndAudited(q2)
        /\ req[q2].customer_id = req[q1].customer_id
        /\ req[q3].pc = "done"
        /\ req[q3].status = 404
        /\ AuditCount(AuditEventOf(q1)) = 1
        /\ AuditCount(AuditEventOf(q2)) = 1

(***************************************************************************)
(* Properties of GET /callback (specification SpecOAuth).                  *)
(***************************************************************************)

CallbackReqs == {q \in Reqs : req[q].kind = "callback"}

\* The state token of callback q was not in the state store when q arrived:
\* it was never issued, or an earlier callback had consumed it.
NotInStoreAtArrival(q) ==
    \/ ~\E p \in IssuedStates : p < q /\ req[p].state = req[q].state
    \/ \E p \in CallbackReqs : /\ p < q
                                /\ req[p].state = req[q].state
                                /\ req[p].valid

\* Callback q was answered 400 and made no token-exchange call.
RejectedWithoutExchange(q) ==
    /\ req[q].pc = "done"
    /\ req[q].status = 400
    /\ req[q].exchanges = 0
    /\ ~req[q].valid

\* C14 as stated: /callback returns 400, without a token exchange, whenever
\* the error parameter is present or the state token is not in the store.
C14_ErrorPresentOrUnknownStateRejected ==
    \A q \in CallbackReqs :
        (req[q].error # None \/ NotInStoreAtArrival(q)) => RejectedWithoutExchange(q)

\* C14, amended: /callback returns 400, without a token exchange, whenever
\* the error parameter is present and not empty, or the state token is not in
\* the store; a callback with neither goes on to the token exchange.
C14_ErrorOrUnknownStateRejected ==
    \A q \in CallbackReqs :
        IF req[q].error \notin {None, ""} \/ NotInStoreAtArrival(q)
        THEN RejectedWithoutExchange(q)
        ELSE req[q].valid /\ (req[q].pc = "exchange" \/ req[q].exchanges = 1)

\* A callback with an error and a token that was in the store when it
\* arrived, and a callback without error whose token had been consumed: both
\* were answered 400 without a token exchange.
C14_Witness ==
    \E q1, q3 \in CallbackReqs :
        /\ req[q1].error = "access_denied"
        /\ ~NotInStoreAtArrival(q1)
        /\ RejectedWithoutExchange(q1)
        /\ req[q3].error = None
        /\ req[q3].state \in IssuedStates
        /\ NotInStoreAtArrival(q3)
        /\ RejectedWithoutExchange(q3)

(***************************************************************************)
(* Properties of /regenerate-api-key (specification SpecCustomer).         *)
(***************************************************************************)

\* The tenant of request q had no customer record when q arrived (and made its
\* lookup): every record of the tenant was created by a request that arrived
\* later.  Records are never deleted, and a record's id is the number of the
\* request that created it.
NoRecordAtArrival(q) ==
    \A d \in customers : d.tenant_id = req[q].tenant_id => d.id > q

\* C15: /regenerate-api-key for a tenant with no customer record answers 404
\* and writes nothing: no record holds the hash of a key drawn for it, and no
\* api_key_regenerated event of the tenant is in audit_logs but those of the
\* other regenerations.
C15_RegenerateUnknownTenant404 ==
    \A q \in RegenerateReqs :
        NoRecordAtArrival(q) =>
            /\ req[q].pc \in {"checked", "done"}
            /\ req[q].pc = "done" => req[q].status = 404
            /\ req[q].customer_id = 0
            /\ req[q].response_key = EmptyKey
            /\ \A d \in customers : d.api_key_hash # generate_api_key(q).key_hash
            /\ \A e \in DOMAIN audit_logs :
                    (e.event_type = "api_key_regenerated"
                        /\ e.tenant_id = req[q].tenant_id) =>
                    AuditCount(e) =
                        Cardinality({q2 \in RegenerateReqs \ {q} :
                                        WroteAndAudited(q2) /\ AuditEventOf(q2) = e})

\* A /regenerate-api-key answered 404 for a tenant without a record, while the
\* store holds the record and the audit event of another tenant.
C15_Witness ==
    \E q \in RegenerateReqs :
        /\ NoRecordAtArrival(q)
        /\ req[q].pc = "done"
        /\ req[q].status = 404
        /\ ~req[q].lookup_raised
        /\ \E d \in customers : d.id < q /\ d.tenant_id # req[q].tenant_id
        /\ DOMAIN audit_logs # {}

(***************************************************************************)
(* Properties of GET /workspaces (specification SpecList).                 *)
(***************************************************************************)

ListWorkspacesReqs == {q \in Reqs : req[q].kind = "list_workspaces"}

\* The workspaces the listings recorded in calls returned, in order:
\* [subscription_id, workspace_name].
RECURSIVE ListedBy(_)
ListedBy(calls) ==
    IF calls = << >> THEN << >>
    ELSE [k \in 1..Len(Head(calls).names) |->
            [subscription_id |-> Head(calls).sub_id,
             workspace_name |-> Head(calls).names[k]]]
         \o ListedBy(Tail(calls))

\* The subscriptions whose listing, among calls, was not answered 200.
RECURSIVE FailedIn(_)
FailedIn(calls) ==
    IF calls = << >> THEN << >>
    ELSE (IF Head(calls).status # 200 THEN <<Head(calls).sub_id>> ELSE << >>)
         \o FailedIn(Tail(calls))

Returned(q) ==
    [k \in 1..Len(req[q].workspaces) |->
        [subscription_id |-> req[q].workspaces[k].subscription_id,
         workspace_name |-> req[q].workspaces[k].workspace_name]]

\* C16: only a non-200 answer to the subscription listing aborts
\* list_workspaces (400, and no workspace listing is asked for).  Otherwise the
\* call answers 200 after asking for the workspaces of every subscription: each
\* listing not answered 200 adds one entry to errors, and the workspaces of
\* all the other listings are returned.
C16_PartialFailuresDoNotAbort ==
    \A q \in ListWorkspacesReqs :
        /\ req[q].subs_status # 200 =>
                /\ req[q].pc = "done"
                /\ req[q].status = 400
                /\ req[q].calls = << >>
        /\ req[q].subs_status = 200 =>
                /\ req[q].status \in {0, 200}
                /\ req[q].errors = FailedIn(req[q].calls)
                /\ req[q].pc = "done" =>
                        /\ req[q].status = 200
                        /\ Len(req[q].calls) = Len(req[q].subscriptions)
                        /\ \A k \in 1..Len(req[q].calls) :
                                req[q].calls[k].sub_id =
                                    req[q].subscriptions[k].subscriptionId
                        /\ Returned(q) = ListedBy(req[q].calls)

\* The listing of the first of two subscriptions was answered 403, and the
\* call has returned the workspace of the second.
C16_Witness ==
    \E q \in ListWorkspacesReqs :
        /\ req[q].pc = "done"
        /\ req[q].status = 200
        /\ Len(req[q].calls) = 2
        /\ req[q].calls[1].status = 403
        /\ req[q].calls[2].status = 200
        /\ Len(req[q].errors) = 1
        /\ Len(req[q].workspaces) = 1
        /\ req[q].workspaces[1].subscription_id = req[q].calls[2].sub_id

\* The state ARM gave for subscription sub_id in its answer to request q.
StateOf(q, sub_id) ==
    LET k == CHOOSE k \in 1..Len(req[q].subscriptions) :
                req[q].subscriptions[k].subscriptionId = sub_id
    IN  req[q].subscriptions[k].state

\* C17: list_workspaces asks for the workspaces of Enabled subscriptions only:
\* a subscription in another state gets no workspace listing, and no workspace
\* and no error entry of the result is its.
C17_OnlyEnabledSubscriptionsListed ==
    \A q \in ListWorkspacesReqs :
        /\ \A k \in 1..Len(req[q].calls) :
                StateOf(q, req[q].calls[k].sub_id) = "Enabled"
        /\ \A k \in 1..Len(req[q].workspaces) :
                StateOf(q, req[q].workspaces[k].subscription_id) = "Enabled"
        /\ \A k \in 1..Len(req[q].errors) :
                StateOf(q, req[q].errors[k]) = "Enabled"

(***************************************************************************)
(* Properties of get_customer_by_api_key (specification SpecKeys).         *)
(***************************************************************************)

KeyLookups == {q \in Reqs : req[q].kind = "get_customer_by_api_key"}

\* C18: get_customer_by_api_key answers not-found without a store query when
\* the key is empty or does not start with "soc_"; otherwise it sends one
\* query, and (unless the query raises) returns a customer exactly when an
\* active customer holds the key's hash, and then such a customer: a hash held
\* only by non-active customers yields not-found.
C18_KeyLookupPrefixAndActiveOnly ==
    \A q \in KeyLookups :
        IF req[q].api_key = EmptyKey \/ req[q].api_key[1] # "soc_"
        THEN req[q].queries = 0 /\ req[q].result = 0 /\ req[q].status = 200
        ELSE /\ req[q].queries = 1
             /\ req[q].status = 200 =>
                    IF \E h \in req[q].holders : h.status = "active"
                    THEN [id |-> req[q].result, status |-> "active"] \in req[q].holders
                    ELSE req[q].result = 0
             /\ req[q].status # 200 => req[q].result = 0

\* A lookup with the key of a customer that had been set to a non-active
\* status: one query, and not-found.
C18_Witness ==
    \E q \in KeyLookups :
        /\ req[q].queries = 1
        /\ req[q].status = 200
        /\ req[q].holders # {}
        /\ \A h \in req[q].holders : h.status = "disabled"
        /\ req[q].result = 0

(***************************************************************************)
(* The two repositories compared (specification SpecRepos).                *)
(***************************************************************************)

RepoCalls == {q \in Reqs : req[q].kind \in {"repo_create_customer",
                                              "repo_get_customer_by_tenant",
                                              "repo_regenerate_api_key"}}

\* C19: over every sequence of calls the document-store and the
\* relational-store variant answer alike: the same found or not-found, the
\* same error for an unknown customer_id, the same outcome when the store's
\* query fails.
C19_BackendsObservablyEquivalent ==
    /\ \A q \in RepoCalls : req[q].pc = "done" => req[q].cosmos = req[q].pg
    /\ {[id |-> d.id, tenant_id |-> d.tenant_id, api_key_hash |-> d.api_key_hash] :
            d \in customers}
       = {[id |-> x.id, tenant_id |-> x.tenant_id, api_key_hash |-> x.api_key_hash] :
            x \in pg_customers}

(***************************************************************************)
(* No compensation (specification SpecStages).                             *)
(***************************************************************************)

\* The resource a PUT of request q creates: [kind, name].
ResourceOf(q, step) ==
    CASE step = "resource_group" ->
            [kind |-> "resourceGroup", name |-> req[q].resource_group]
      [] step = "workspace" -> [kind |-> "workspace", name |-> req[q].workspace_name]
      [] step = "sentinel" -> [kind |-> "sentinel", name |-> req[q].workspace_name]
      [] step = "role" -> [kind |-> "roleAssignment", name |-> role_assignment_name(q)]
      [] step = "rule" -> [kind |-> "automationRule", name |-> automation_rule_name(q)]

ArmReqs == {q \in Reqs : req[q].kind \in {"create_workspace", "create_automation_rule"}}

\* C20: nothing is compensated.  Every resource a PUT of any request created
\* is still held by ARM, and every customer record a /complete created is
\* still in the store, whatever failed afterwards: the resource group of a
\* create_workspace that failed at the workspace step, the role assignment of
\* a create_automation_rule that failed at the rule step, the workspaces and
\* customer records created before.
C20_NoCompensation ==
    /\ \A q \in ArmReqs : \A k \in 1..Len(req[q].calls) :
            req[q].calls[k].status \in {200, 201, 202} =>
                ResourceOf(q, req[q].calls[k].step) \in arm
    /\ \A q \in CompleteReqs :
            req[q].customer_id # 0 =>
                \E d \in customers : d.id = req[q].customer_id
                                      /\ d.tenant_id = req[q].tenant_id

\* A create_workspace that failed at the workspace step after its resource
\* group was created, and a create_automation_rule that failed at the rule
\* step after its role assignment was created, beside a /complete that
\* created a customer record: all three are still there.
C20_Witness ==
    \E q1, q2, q3 \in Reqs :
        /\ req[q1].kind = "create_workspace"
        /\ req[q1].status = 400
        /\ Len(req[q1].calls) = 2
        /\ req[q1].calls[1].status = 201
        /\ ResourceOf(q1, "resource_group") \in arm
        /\ req[q2].kind = "create_automation_rule"
        /\ req[q2].status = 400
        /\ req[q2].calls[1].status = 201
        /\ ResourceOf(q2, "role") \in arm
        /\ ResourceOf(q2, "rule") \notin arm
        /\ req[q3].kind = "complete"
        /\ req[q3].pc = "done"
        /\ req[q3].status = 200
        /\ \E d \in customers : d.id = q3

(***************************************************************************)
(* Retrying a stage (specification SpecOAuth).                             *)
(***************************************************************************)

\* Callback q passed validation and its token exchange was not answered 200.
ExchangeFailed(q) ==
    /\ q \in CallbackReqs
    /\ req[q].pc = "done"
    /\ req[q].status = 400
    /\ req[q].exchanges = 1

\* C21: a failed stage can be retried by re-issuing the same request.  What
\* the re-issued request needs is still there: the state token of a /callback
\* whose token exchange failed is still in the state store, and a /complete
\* that failed has left no record that would answer its re-issue with 409.
\* (create_workspace and create_automation_rule read no state of the
\* application.)
C21_FailedStageRetriable ==
    /\ \A q \in CallbackReqs :
            ExchangeFailed(q) => req[q].state \in DOMAIN state_store
    /\ \A q \in CompleteReqs :
            (req[q].pc = "done" /\ req[q].status = 500) =>
                ~\E d \in customers : d.id = q

(***************************************************************************)
(* No automatic retry (specification SpecOutbound).                        *)
(***************************************************************************)

\* C22: within one request no outbound call is sent twice.  A /callback makes
\* at most one token exchange, and one not answered 200 ends it with 400.  A
\* create_workspace or create_automation_rule sends each of its PUTs at most
\* once; a PUT with a non-success answer is the request's last call and the
\* request returns 400, unless it is the Sentinel or the role-assignment PUT,
\* which is passed over.
C22_NoCallReissued ==
    /\ \A q \in CallbackReqs :
            /\ req[q].exchanges <= 1
            /\ req[q].exchanges = 1 => req[q].pc = "done"
    /\ \A q \in ArmReqs :
            /\ \A i, j \in 1..Len(req[q].calls) :
                    i # j => req[q].calls[i].step # req[q].calls[j].step
            /\ \A k \in 1..Len(req[q].calls) :
                    NonSuccess(req[q].calls[k].status) =>
                        \/ /\ k = Len(req[q].calls)
                           /\ req[q].pc = "done"
                           /\ req[q].status = 400
                        \/ req[q].calls[k].step \in {"sentinel", "role"}

\* A token exchange that failed, a create_workspace that returned after its
\* Sentinel PUT failed, and a create_automation_rule that went on to the rule
\* PUT after its role-assignment PUT failed.
C22_Witness ==
    \E q1 \in CallbackReqs, q2, q3 \in ArmReqs :
        /\ ExchangeFailed(q1)
        /\ req[q2].kind = "create_workspace"
        /\ req[q2].pc = "done"
        /\ req[q2].status = 200
        /\ Len(req[q2].calls) = 3
        /\ NonSuccess(req[q2].calls[3].status)
        /\ req[q3].kind = "create_automation_rule"
        /\ req[q3].pc = "done"
        /\ Len(req[q3].calls) = 2
        /\ NonSuccess(req[q3].calls[1].status)

(***************************************************************************)
(* The existence lookup of /complete (specification SpecCustomer).         *)
(***************************************************************************)

\* C23: get_customer_by_tenant of the document store answers None when the
\* tenant has no customer and when its query raises.  So a /complete whose
\* lookup raised is never answered 409 and is not ended by that error: it
\* goes on to create_customer and (unless that write raises too) stores a
\* record, whether or not the tenant already had one.
C23_FailedLookupProceedsToCreate ==
    \A q \in CompleteReqs :
        /\ (~req[q].lookup_raised /\ NoRecordAtArrival(q)) => req[q].existing = 0
        /\ req[q].lookup_raised =>
                /\ req[q].existing = 0
                /\ req[q].status # 409
                /\ req[q].pc # "checked" =>
                        \/ req[q].status = 500 /\ req[q].customer_id = 0
                        \/ /\ req[q].customer_id = q
                           /\ \E d \in customers : d.id = q
                                                    /\ d.tenant_id = req[q].tenant_id

\* A /complete for a tenant that an earlier /complete had onboarded: its
\* lookup raised, it answered 200, and the tenant has two records.
C23_Witness ==
    \E q \in CompleteReqs :
        /\ req[q].lookup_raised
        /\ req[q].in_sequence
        /\ req[q].pc = "done"
        /\ req[q].status = 200
        /\ Cardinality(query_by_tenant(customers, req[q].tenant_id)) = 2

(***************************************************************************)
(* Records that are not active (specification SpecKeys).                   *)
(***************************************************************************)

\* The requests that look a customer up by tenant.
TenantLookups == {q \in Reqs : req[q].kind \in {"complete", "regenerate",
                                                  "customer_status"}}

\* The raw keys drawn for the requests so far.
DrawnKeys == {req[q].api_key : q \in {p \in KeyReqs : req[p].api_key # EmptyKey}}

\* C24: the existence check looks at records of every status, the key lookup
\* at active ones only.  A lookup by tenant (whose query works) made after a
\* /complete stored a record for the tenant finds a record, whatever status
\* the record has by then, and a /complete is then answered 409 and stores
\* nothing; while no key resolves to a record that is not active.
C24_ExistenceCheckIgnoresStatus ==
    /\ \A q \in TenantLookups :
            (req[q].in_sequence /\ ~req[q].lookup_raised) =>
                /\ req[q].existing # 0
                /\ req[q].kind = "complete" =>
                        /\ req[q].customer_id = 0
                        /\ req[q].pc = "done" => req[q].status = 409
                /\ req[q].kind = "regenerate" => req[q].status # 404
                /\ req[q].kind = "customer_status" => req[q].exists
    /\ \A k \in DrawnKeys : \A d \in get_customer_by_api_key(customers, k) :
            d.id = 0 \/ d.status = "active"

\* A tenant whose only record was set to "disabled": the /complete that
\* followed was answered 409, and the key it was given resolves to nothing.
C24_Witness ==
    \E q1, q3 \in CompleteReqs, q2 \in Reqs :
        /\ q1 < q2 /\ q2 < q3
        /\ req[q1].status = 200
        /\ req[q2].kind = "update_customer"
        /\ req[q2].customer_id = q1
        /\ req[q2].new_status = "disabled"
        /\ req[q2].status = 200
        /\ req[q3].tenant_id = req[q1].tenant_id
        /\ req[q3].pc = "done"
        /\ req[q3].status = 409
        /\ query_by_tenant(customers, req[q1].tenant_id) =
                {[customer_document(q1, req[q1].tenant_id, sha256(req[q1].response_key))
                    EXCEPT !.status = "disabled"]}
        /\ get_customer_by_api_key(customers, req[q1].response_key) = {NoCustomer}

(***************************************************************************)
(* One key per customer record (specification SpecCustomer).               *)
(***************************************************************************)

\* The raw keys drawn so far that resolve to the customer record with id c.
ResolvingTo(c) ==
    {k \in DrawnKeys : \E d \in get_customer_by_api_key(customers, k) : d.id = c}

\* C25: at most one raw key resolves to a customer record.  A record holds one
\* hash, a regeneration overwrites it, and the key that resolves is the key of
\* the request that wrote the record's hash: of the /regenerate-api-key calls
\* that overwrote one record, however they interleave and although each
\* answered 200 with its key, at most one has a key that resolves.
C25_OneKeyPerCustomerRecord ==
    /\ \A d \in customers :
            /\ Cardinality(ResolvingTo(d.id)) <= 1
            /\ \A k \in ResolvingTo(d.id) :
                    /\ d.api_key_hash = sha256(k)
                    /\ \E q \in KeyReqs : req[q].api_key = k /\ req[q].customer_id = d.id
            /\ \A d2 \in customers : d2.id = d.id => d2 = d
    /\ \A q1, q2 \in RegenerateReqs :
            (q1 # q2 /\ req[q1].customer_id # 0
                /\ req[q1].customer_id = req[q2].customer_id) =>
                ~(req[q1].api_key \in ResolvingTo(req[q1].customer_id)
                    /\ req[q2].api_key \in ResolvingTo(req[q2].customer_id))

\* Two /regenerate-api-key calls for one tenant that overlapped and both
\* answered 200 with a key: one of the two keys resolves, the other and the
\* key of the /complete do not.
C25_Witness ==
    \E q1, q2 \in RegenerateReqs :
        /\ q1 < q2
        /\ ~req[q2].alone
        /\ req[q1].status = 200
        /\ req[q2].status = 200
        /\ req[q1].customer_id = req[q2].customer_id
        /\ Cardinality(ResolvingTo(req[q1].customer_id)) = 1
        /\ ResolvingTo(req[q1].customer_id) \subseteq
                {req[q1].response_key, req[q2].response_key}

====
